---- MODULE Spec2Model ----
(***************************************************************************)
(* Model of the foundry trace viewer (DarkEnhancedTraceViewer).            *)
(*                                                                         *)
(* Three variants of the component exist in the repository:                *)
(*   "App"      src/src/App.tsx        per-section id counter, no sidebar  *)
(*   "part_000" src/unnamed/part_000   global id counter, sidebar history  *)
(*   src/unnamed/part_001 has the parser of part_000 and the handlers of   *)
(*   App.tsx; its state is the state of part_000 without the sidebar       *)
(*   history, so part_000 stands for it.                                   *)
(*                                                                         *)
(* Text is a sequence of characters.  Each character is a one-token        *)
(* string; the section marker "Traces:" and the bracketed keywords are     *)
(* atomic tokens.  The box-drawing glyphs are written in ASCII:            *)
(*   "|" is U+2502 (vertical bar), "+" is U+251C (tee),                   *)
(*   "L" is U+2514 (corner), "-" is U+2500 (dash), "<-" is U+2190 (arrow). *)
(* Trace objects live in a heap (a sequence of records); a reference to a  *)
(* Trace is its index in the heap, 0 is null/undefined.                    *)
(***************************************************************************)
EXTENDS Integers, Sequences, FiniteSets, Bags, TLC

VARIABLES
    variant,            \* which of the three components is running
    file,               \* useState: the last selected file (its text)
    heap,               \* the Trace objects of the current forest
    traces,             \* useState: references to the top-level traces
    loading,            \* useState
    expandedItems,      \* useState: set of ids
    searchTerm,         \* useState
    highlightedItems,   \* useState: set of ids
    lastExpandedTrace,  \* useState (part_000): reference or 0
    expandedHistory,    \* useState (part_000): sequence of references
    pending,            \* bag of the texts of the files whose file.text() is awaited
    text,               \* parseTraceFile: the text the current forest was parsed from
    traceRefs,          \* useRef (part_000): the ids renderTrace has stored an element for
    lines,              \* parseTraceLines: the lines not yet visited by the loop
    line,               \* parseTraceLines: the line of the last iteration
    rootTraces,         \* parseTraceLines: local
    currentStack,       \* parseTraceLines: local
    lineId              \* parseTraceLines: local

vars == <<variant, file, heap, traces, loading, expandedItems, searchTerm,
          highlightedItems, lastExpandedTrace, expandedHistory, pending, text,
          traceRefs, lines, line, rootTraces, currentStack, lineId>>

loopVars == <<lines, line, rootTraces, currentStack, lineId>>

-----------------------------------------------------------------------------
(* Characters *)

Marker == "Traces:"
NL == "\n"
SP == " "
Dash == "-"
Glyphs == {"|", "+", "L"}
Whitespace == {SP, NL}
Upper == {"X", "Y"}
Lower == {"x", "y"}
IdentChars == Upper \cup Lower

Variants == {"App", "part_000"}

Null == 0
NoName == <<>>
NoStackId == -1

-----------------------------------------------------------------------------
(* String primitives *)

RECURSIVE TrimStart(_)
TrimStart(s) ==
    IF s # <<>> /\ Head(s) \in Whitespace THEN TrimStart(Tail(s)) ELSE s

RECURSIVE TrimEnd(_)
TrimEnd(s) ==
    IF s # <<>> /\ s[Len(s)] \in Whitespace
    THEN TrimEnd(SubSeq(s, 1, Len(s) - 1))
    ELSE s

Trim(s) == TrimEnd(TrimStart(s))

Substring(s, from) == SubSeq(s, from + 1, Len(s))

ToLowerChar(c) ==
    CASE c = "X" -> "x"
      [] c = "Y" -> "y"
      [] OTHER -> c

ToLowerCase(s) == [i \in 1..Len(s) |-> ToLowerChar(s[i])]

Includes(s, sub) ==
    \E i \in 0..(Len(s) - Len(sub)) : SubSeq(s, i + 1, i + Len(sub)) = sub

\* text.split(/Traces:\s*/g): cut at every marker and the whitespace after it
RECURSIVE SplitMarker(_, _, _, _)
SplitMarker(s, i, cur, skipping) ==
    IF i > Len(s) THEN <<cur>>
    ELSE IF s[i] = Marker THEN <<cur>> \o SplitMarker(s, i + 1, <<>>, TRUE)
    ELSE IF skipping /\ s[i] \in Whitespace THEN SplitMarker(s, i + 1, cur, TRUE)
    ELSE SplitMarker(s, i + 1, Append(cur, s[i]), FALSE)

NonEmpty(s) == s # <<>>

TraceSections(t) == SelectSeq(SplitMarker(t, 1, <<>>, FALSE), NonEmpty)

\* section.split('\n')
RECURSIVE SplitLines(_, _, _)
SplitLines(s, i, cur) ==
    IF i > Len(s) THEN <<cur>>
    ELSE IF s[i] = NL THEN <<cur>> \o SplitLines(s, i + 1, <<>>)
    ELSE SplitLines(s, i + 1, Append(cur, s[i]))

SectionLines(section) == SplitLines(section, 1, <<>>)

-----------------------------------------------------------------------------
(* Line classifier *)

\* length of the match of /^(\s*(?:[glyph]-?\s*)*)/ : whitespace and glyphs
\* are always taken, a dash only directly after a glyph
RECURSIVE IndentLen(_, _)
IndentLen(l, i) ==
    IF i > Len(l) THEN Len(l)
    ELSE IF l[i] \in Whitespace \/ l[i] \in Glyphs THEN IndentLen(l, i + 1)
    ELSE IF l[i] = Dash /\ i > 1 /\ l[i - 1] \in Glyphs THEN IndentLen(l, i + 1)
    ELSE i - 1

IndentPart(l) == SubSeq(l, 1, IndentLen(l, 1))

IsGlyph(c) == c \in Glyphs

\* seeded fault: the depth is the number of glyph groups (runs of adjacent glyphs)
DepthOf_Groups(indentPart) ==
    Cardinality({k \in DOMAIN indentPart :
                    /\ indentPart[k] \in Glyphs
                    /\ (k = 1 \/ indentPart[k - 1] \notin Glyphs)})

DepthOf(indentPart) == Len(SelectSeq(indentPart, IsGlyph))

IsIdent(c) == c \in IdentChars

\* ([A-Za-z0-9_]+)::([A-Za-z0-9_]+)\((.*?)\) matched at start..sep..open..close
IsFunctionMatch(c, start, sep, open) ==
    /\ 1 <= start /\ start < sep /\ sep + 1 < open /\ open <= Len(c)
    /\ c[sep] = "::" /\ c[open] = "("
    /\ \A k \in start..(sep - 1) : IsIdent(c[k])
    /\ \A k \in (sep + 1)..(open - 1) : IsIdent(c[k])
    /\ \E close \in (open + 1)..Len(c) : c[close] = ")"

FunctionMatches(c) ==
    LET seps == {k \in DOMAIN c : c[k] = "::"}
        opens == {k \in DOMAIN c : c[k] = "("}
    IN  {m \in (DOMAIN c) \X seps \X opens : IsFunctionMatch(c, m[1], m[2], m[3])}

\* the leftmost match
FunctionMatch(c) ==
    CHOOSE m \in FunctionMatches(c) : \A o \in FunctionMatches(c) : m[1] <= o[1]

ContractNameOf(c) ==
    IF FunctionMatches(c) = {} THEN NoName
    ELSE LET m == FunctionMatch(c) IN SubSeq(c, m[1], m[2] - 1)

FunctionNameOf(c) ==
    IF FunctionMatches(c) = {} THEN NoName
    ELSE LET m == FunctionMatch(c) IN SubSeq(c, m[2] + 1, m[3] - 1)

CallTypeOf(c) ==
    IF Includes(c, <<"[staticcall]">>) THEN "staticcall"
    ELSE IF Includes(c, <<"[call]">>) THEN "call"
    ELSE IF Includes(c, <<"[delegatecall]">>) THEN "delegatecall"
    ELSE "null"

IsReturnOf(c) ==
    Includes(c, <<"<-", SP, "[Return]">>) \/ Includes(c, <<"<-", SP, "[Stop]">>)

TraceId(n) == <<"trace-", n>>

NewTrace(content, depth, id) ==
    [id |-> TraceId(id),
     content |-> content,
     children |-> <<>>,
     depth |-> depth,
     contractName |-> ContractNameOf(content),
     functionName |-> FunctionNameOf(content),
     callType |-> CallTypeOf(content),
     isReturn |-> IsReturnOf(content),
     raw |-> content,
     rowIndex |-> id + 1,
     parent |-> Null,
     stackId |-> NoStackId]

-----------------------------------------------------------------------------
(* Tree builder: parseTraceLines *)

\* The locals of parseTraceLines, with the heap the Trace objects are
\* allocated in.
LoopState(h, start) ==
    [heap |-> h, rootTraces |-> <<>>, currentStack |-> <<>>, lineId |-> start]

\* seeded fault: the child is pushed twice
PushChild_Twice(h, parent, child) ==
    [h EXCEPT ![parent].children = Append(Append(@, child), child)]

PushChild(h, parent, child) ==
    [h EXCEPT ![parent].children = Append(@, child)]

\* seeded fault: a line deeper than the open chain is dropped like an orphan
Attach_DropSkipped(st, trace, depth) ==
    LET ref == Len(st.heap) + 1
        h == Append(st.heap, trace)
        n == Len(st.currentStack)
    IN  IF depth = 0
        THEN [heap |-> h,
              rootTraces |-> Append(st.rootTraces, ref),
              currentStack |-> <<ref>>,
              lineId |-> st.lineId + 1]
        ELSE IF depth <= n
        THEN LET stack == SubSeq(st.currentStack, 1, depth)
             IN  [heap |-> PushChild(h, stack[depth], ref),
                  rootTraces |-> st.rootTraces,
                  currentStack |-> Append(stack, ref),
                  lineId |-> st.lineId + 1]
        ELSE [heap |-> h,
              rootTraces |-> st.rootTraces,
              currentStack |-> st.currentStack,
              lineId |-> st.lineId + 1]

\* seeded fault: the stack is not cut back before the node is pushed
Attach_NoTruncate(st, trace, depth) ==
    LET ref == Len(st.heap) + 1
        h == Append(st.heap, trace)
        n == Len(st.currentStack)
    IN  IF depth = 0
        THEN [heap |-> h,
              rootTraces |-> Append(st.rootTraces, ref),
              currentStack |-> <<ref>>,
              lineId |-> st.lineId + 1]
        ELSE IF depth <= n
        THEN [heap |-> PushChild(h, st.currentStack[depth], ref),
              rootTraces |-> st.rootTraces,
              currentStack |-> Append(st.currentStack, ref),
              lineId |-> st.lineId + 1]
        ELSE IF depth > n /\ n > 0
        THEN [heap |-> PushChild(h, st.currentStack[n], ref),
              rootTraces |-> st.rootTraces,
              currentStack |-> Append(st.currentStack, ref),
              lineId |-> st.lineId + 1]
        ELSE [heap |-> h,
              rootTraces |-> st.rootTraces,
              currentStack |-> st.currentStack,
              lineId |-> st.lineId + 1]

\* seeded fault: a line below the root level that arrives before any root
\* is taken as a root
Attach_OrphanRoot(st, trace, depth) ==
    LET ref == Len(st.heap) + 1
        h == Append(st.heap, trace)
        n == Len(st.currentStack)
    IN  IF depth = 0 \/ n = 0
        THEN [heap |-> h,
              rootTraces |-> Append(st.rootTraces, ref),
              currentStack |-> <<ref>>,
              lineId |-> st.lineId + 1]
        ELSE IF depth <= n
        THEN LET stack == SubSeq(st.currentStack, 1, depth)
             IN  [heap |-> PushChild(h, stack[depth], ref),
                  rootTraces |-> st.rootTraces,
                  currentStack |-> Append(stack, ref),
                  lineId |-> st.lineId + 1]
        ELSE [heap |-> PushChild(h, st.currentStack[n], ref),
              rootTraces |-> st.rootTraces,
              currentStack |-> Append(st.currentStack, ref),
              lineId |-> st.lineId + 1]

\* seeded fault: a depth-0 line is pushed on the open chain instead of
\* replacing it
Attach_RootKeepsStack(st, trace, depth) ==
    LET ref == Len(st.heap) + 1
        h == Append(st.heap, trace)
        n == Len(st.currentStack)
    IN  IF depth = 0
        THEN [heap |-> h,
              rootTraces |-> Append(st.rootTraces, ref),
              currentStack |-> Append(st.currentStack, ref),
              lineId |-> st.lineId + 1]
        ELSE IF depth <= n
        THEN LET stack == SubSeq(st.currentStack, 1, depth)
             IN  [heap |-> PushChild(h, stack[depth], ref),
                  rootTraces |-> st.rootTraces,
                  currentStack |-> Append(stack, ref),
                  lineId |-> st.lineId + 1]
        ELSE IF depth > n /\ n > 0
        THEN [heap |-> PushChild(h, st.currentStack[n], ref),
              rootTraces |-> st.rootTraces,
              currentStack |-> Append(st.currentStack, ref),
              lineId |-> st.lineId + 1]
        ELSE [heap |-> h,
              rootTraces |-> st.rootTraces,
              currentStack |-> st.currentStack,
              lineId |-> st.lineId + 1]

\* seeded fault: a node attached over a skipped level is not pushed on the
\* stack
Attach_SkipNotPushed(st, trace, depth) ==
    LET ref == Len(st.heap) + 1
        h == Append(st.heap, trace)
        n == Len(st.currentStack)
    IN  IF depth = 0
        THEN [heap |-> h,
              rootTraces |-> Append(st.rootTraces, ref),
              currentStack |-> <<ref>>,
              lineId |-> st.lineId + 1]
        ELSE IF depth <= n
        THEN LET stack == SubSeq(st.currentStack, 1, depth)
             IN  [heap |-> PushChild(h, stack[depth], ref),
                  rootTraces |-> st.rootTraces,
                  currentStack |-> Append(stack, ref),
                  lineId |-> st.lineId + 1]
        ELSE IF depth > n /\ n > 0
        THEN [heap |-> PushChild(h, st.currentStack[n], ref),
              rootTraces |-> st.rootTraces,
              currentStack |-> st.currentStack,
              lineId |-> st.lineId + 1]
        ELSE [heap |-> h,
              rootTraces |-> st.rootTraces,
              currentStack |-> st.currentStack,
              lineId |-> st.lineId + 1]

\* "Add to appropriate level in the tree"
Attach(st, trace, depth) ==
    LET ref == Len(st.heap) + 1
        h == Append(st.heap, trace)
        n == Len(st.currentStack)
    IN  IF depth = 0
        THEN [heap |-> h,
              rootTraces |-> Append(st.rootTraces, ref),
              currentStack |-> <<ref>>,
              lineId |-> st.lineId + 1]
        ELSE IF depth <= n
        THEN LET stack == SubSeq(st.currentStack, 1, depth)
             IN  [heap |-> PushChild(h, stack[depth], ref),
                  rootTraces |-> st.rootTraces,
                  currentStack |-> Append(stack, ref),
                  lineId |-> st.lineId + 1]
        ELSE IF depth > n /\ n > 0
        THEN [heap |-> PushChild(h, st.currentStack[n], ref),
              rootTraces |-> st.rootTraces,
              currentStack |-> Append(st.currentStack, ref),
              lineId |-> st.lineId + 1]
        ELSE [heap |-> h,
              rootTraces |-> st.rootTraces,
              currentStack |-> st.currentStack,
              lineId |-> st.lineId + 1]

\* seeded fault: a skipped line consumes an id as well (the id is the line index)
ParseLine_CountsSkipped(st, l) ==
    IF Trim(l) = <<>> THEN [st EXCEPT !.lineId = @ + 1]
    ELSE LET indentPart == IndentPart(l)
             depth == DepthOf(indentPart)
             content == Trim(Substring(l, Len(indentPart)))
         IN  IF content = <<>> THEN [st EXCEPT !.lineId = @ + 1]
             ELSE Attach(st, NewTrace(content, depth, st.lineId), depth)

\* One iteration of the loop over the lines
ParseLine(st, l) ==
    IF Trim(l) = <<>> THEN st
    ELSE LET indentPart == IndentPart(l)
             depth == DepthOf(indentPart)
             content == Trim(Substring(l, Len(indentPart)))
         IN  IF content = <<>> THEN st
             ELSE Attach(st, NewTrace(content, depth, st.lineId), depth)

RECURSIVE ParseLoop(_, _, _)
ParseLoop(st, ls, i) ==
    IF i > Len(ls) THEN st ELSE ParseLoop(ParseLine(st, ls[i]), ls, i + 1)

ParseTraceLines(h, ls, startLineId) == ParseLoop(LoopState(h, startLineId), ls, 1)

-----------------------------------------------------------------------------
(* Section aggregator: parseTraceFile *)

\* seeded fault: the counter is kept across parses and goes on where the previous
\* parse stopped
InitialGlobalLineId_Persistent == Len(heap)

\* let globalLineId = 0 (App.tsx: let lineId = 0 in parseTraceLines)
InitialGlobalLineId == 0

\* App.tsx calls parseTraceLines(lines): lineId starts at 0 in every section;
\* part_000 and part_001 pass the running globalLineId.
StartLineId(v, globalLineId) == IF v = "App" THEN InitialGlobalLineId ELSE globalLineId

RECURSIVE ParseSections(_, _, _, _)
ParseSections(v, sections, i, acc) ==
    IF i > Len(sections) THEN acc
    ELSE LET ls == SectionLines(sections[i])
             r == ParseTraceLines(acc.heap, ls, StartLineId(v, acc.globalLineId))
         IN  ParseSections(v, sections, i + 1,
                 [heap |-> r.heap,
                  allTraces |-> acc.allTraces \o r.rootTraces,
                  globalLineId |-> acc.globalLineId + Len(ls)])

\* seeded fault: the stack id is not propagated below the given traces
RECURSIVE AssignStackIds_Shallow(_, _, _, _)
AssignStackIds_Shallow(h, refs, i, stackId) ==
    IF i > Len(refs) THEN h
    ELSE AssignStackIds_Shallow([h EXCEPT ![refs[i]].stackId = stackId], refs, i + 1, stackId)

RECURSIVE AssignStackIds(_, _, _, _)
AssignStackIds(h, refs, i, stackId) ==
    IF i > Len(refs) THEN h
    ELSE LET h1 == [h EXCEPT ![refs[i]].stackId = stackId]
             h2 == AssignStackIds(h1, h1[refs[i]].children, 1, stackId)
         IN  AssignStackIds(h2, refs, i + 1, stackId)

RECURSIVE AssignRootStackIds(_, _, _)
AssignRootStackIds(h, allTraces, i) ==
    IF i > Len(allTraces) THEN h
    ELSE LET h1 == [h EXCEPT ![allTraces[i]].stackId = i - 1]
             h2 == AssignStackIds(h1, h1[allTraces[i]].children, 1, i - 1)
         IN  AssignRootStackIds(h2, allTraces, i + 1)

\* The try block of parseTraceFile after the read: the new heap and roots
ParseText(v, t) ==
    LET acc == ParseSections(v, TraceSections(t), 1,
                   [heap |-> <<>>, allTraces |-> <<>>,
                    globalLineId |-> InitialGlobalLineId])
    IN  [heap |-> AssignRootStackIds(acc.heap, acc.allTraces, 1),
         allTraces |-> acc.allTraces]

IdsOf(h, refs) == {h[refs[i]].id : i \in 1..Len(refs)}

-----------------------------------------------------------------------------
(* Traversals *)

\* flattenTraces: traces.reduce((acc, trace) => { acc.push(trace);
\* acc.push(...flattenTraces(trace.children)); return acc }, [])
RECURSIVE FlattenTraces(_, _)
FlattenTraces(h, refs) ==
    IF refs = <<>> THEN <<>>
    ELSE <<Head(refs)>> \o FlattenTraces(h, h[Head(refs)].children)
                        \o FlattenTraces(h, Tail(refs))

\* getAllTraceIds: collectIds pushes the id, then visits the children
RECURSIVE CollectIds(_, _, _)
RECURSIVE CollectIdsEach(_, _, _, _)
CollectIds(h, ref, ids) ==
    CollectIdsEach(h, h[ref].children, 1, Append(ids, h[ref].id))

CollectIdsEach(h, refs, i, ids) ==
    IF i > Len(refs) THEN ids
    ELSE CollectIdsEach(h, refs, i + 1, CollectIds(h, refs[i], ids))

GetAllTraceIds(h, roots) == CollectIdsEach(h, roots, 1, <<>>)

-----------------------------------------------------------------------------
(* Query engine: handleSearch *)

\* while (currentTrace && currentTrace.parent) matches.add(currentTrace.parent.id)
RECURSIVE ParentIds(_, _)
ParentIds(h, ref) ==
    IF h[ref].parent = Null THEN {}
    ELSE {h[h[ref].parent].id} \cup ParentIds(h, h[ref].parent)

\* seeded fault: the case of the letters is not ignored
Matches_CaseSensitive(trace, term) == Includes(trace.content, term)

Matches(trace, term) == Includes(ToLowerCase(trace.content), ToLowerCase(term))

\* seeded fault: the parent reference of a visited child is never written
VisitChild_NoParent(st, ref, child) == st

\* seeded fault: the visit also rewrites the child's content in lower case
VisitChild_Lowercase(st, ref, child) ==
    [st EXCEPT !.heap[child].parent = ref,
               !.heap[child].content = ToLowerCase(@)]

\* seeded fault: below the first level the reference is set to the
\* grandparent
VisitChild_GrandParent(st, ref, child) ==
    [st EXCEPT !.heap[child].parent =
                   IF st.heap[ref].parent # Null THEN st.heap[ref].parent ELSE ref]

\* The child's parent reference is written before the child is visited
VisitChild(st, ref, child) == [st EXCEPT !.heap[child].parent = ref]

RECURSIVE FindMatches(_, _, _)
RECURSIVE FindMatchesChildren(_, _, _, _)
FindMatches(st, ref, term) ==
    LET st1 == IF Matches(st.heap[ref], term)
               THEN [st EXCEPT !.matches = @ \cup {st.heap[ref].id}
                                              \cup ParentIds(st.heap, ref)]
               ELSE st
    IN  FindMatchesChildren(st1, ref, 1, term)

FindMatchesChildren(st, ref, k, term) ==
    IF k > Len(st.heap[ref].children) THEN st
    ELSE LET child == st.heap[ref].children[k]
         IN  FindMatchesChildren(FindMatches(VisitChild(st, ref, child), child, term),
                                 ref, k + 1, term)

RECURSIVE FindMatchesRoots(_, _, _, _)
FindMatchesRoots(st, roots, i, term) ==
    IF i > Len(roots) THEN st
    ELSE FindMatchesRoots(FindMatches(st, roots[i], term), roots, i + 1, term)

-----------------------------------------------------------------------------
(* Inputs *)

MaxTextLen == 5
MaxTermLen == 1
MaxPending == 2
NumFiles == 4

SeqsUpTo(S, n) == UNION {[1..k -> S] : k \in 0..n}

\* every document of at most MaxTextLen characters
TextAlphabet == {Marker, NL, SP, "|", "+", Dash, "x"}
Texts == SeqsUpTo(TextAlphabet, MaxTextLen)

TermAlphabet == {"Y", SP}
Terms == SeqsUpTo(TermAlphabet, MaxTermLen)

\* documents uploaded to the interactive viewer
SampleFiles ==
    << \* two sections: a call with a child and a grandchild, then a lone root
       <<Marker, NL, "X", "::", "y", "(", ")", SP, "[call]", NL,
         SP, "+", Dash, SP, "x", NL,
         SP, "|", SP, "L", Dash, SP, "<-", SP, "[Return]", NL,
         Marker, NL, "y">>,
       \* an orphan line, a root, a skipped level, a sibling chain
       <<"|", "x", NL, "y", NL, "|", "|", "|", "X", NL, "|", "|", "x", "y">>,
       \* no section at all
       <<Marker, SP, NL>>,
       \* two sections of one root line each
       <<Marker, NL, "x", NL, Marker, NL, "Y">>,
       <<"x", Marker, "x", NL, "|", "y">> >>

Files == {SampleFiles[i] : i \in 1..NumFiles}

File(t) == <<t>>
NoFile == <<>>

-----------------------------------------------------------------------------
(* Structure of a forest, read off the children lists *)

RECURSIVE Descendants(_, _)
Descendants(h, ref) ==
    {ref} \cup UNION {Descendants(h, h[ref].children[k]) : k \in DOMAIN h[ref].children}

ForestRefs(h, roots) == UNION {Descendants(h, roots[i]) : i \in DOMAIN roots}

\* the nodes on the path from ref up to its root, ref included
PathToRoot(h, roots, ref) ==
    {a \in ForestRefs(h, roots) : ref \in Descendants(h, a)}

IsBlank(term) == \A k \in DOMAIN term : term[k] \in Whitespace

\* renderTrace: a node is rendered when every node above it is expanded
RenderedRefs(h, roots, expanded) ==
    {ref \in ForestRefs(h, roots) :
        \A a \in PathToRoot(h, roots, ref) \ {ref} : h[a].id \in expanded}

\* ref={el => { if (el) traceRefs.current[trace.id] = el }}: every render
\* stores the elements of the rendered traces under their ids; no entry is
\* ever removed
StoreRefs(refs, h, roots, expanded) ==
    refs \cup {h[ref].id : ref \in RenderedRefs(h, roots, expanded)}

HasSidebar == variant = "part_000"

\* the render that follows a state update
Rerender ==
    traceRefs' = IF HasSidebar
                 THEN StoreRefs(traceRefs, heap', traces', expandedItems')
                 ELSE traceRefs

-----------------------------------------------------------------------------
(* The viewer *)

ViewerInit ==
    /\ file = NoFile
    /\ heap = <<>>
    /\ traces = <<>>
    /\ loading = FALSE
    /\ expandedItems = {}
    /\ searchTerm = <<>>
    /\ highlightedItems = {}
    /\ lastExpandedTrace = Null
    /\ expandedHistory = <<>>
    /\ pending = EmptyBag
    /\ text = <<>>
    /\ traceRefs = {}

LoopIdle ==
    /\ lines = <<>>
    /\ line = <<>>
    /\ rootTraces = <<>>
    /\ currentStack = <<>>
    /\ lineId = 0

Init ==
    /\ variant \in Variants
    /\ ViewerInit
    /\ LoopIdle

\* handleFileChange and parseTraceFile up to the await
HandleFileChange(f) ==
    /\ BagCardinality(pending) < MaxPending
    /\ file' = File(f)
    /\ loading' = TRUE
    /\ pending' = pending (+) SetToBag({f})
    /\ UNCHANGED <<variant, heap, traces, expandedItems, searchTerm, highlightedItems,
                   lastExpandedTrace, expandedHistory, text, traceRefs>>
    /\ UNCHANGED loopVars

\* The result of parsing depends on the variant and the text only; the
\* results for the sample documents are tabulated and looked up.
ParsedFiles == [v \in Variants, f \in Files |-> ParseText(v, f)]

ParseOf(v, f) == IF f \in Files THEN ParsedFiles[v, f] ELSE ParseText(v, f)

\* seeded fault: the expanded set of the previous forest is kept and the
\* new top-level ids are added to it
ReadResolve_KeepsExpanded(f) ==
    /\ BagIn(f, pending)
    /\ LET r == ParseText(variant, f)
       IN  /\ heap' = r.heap
           /\ traces' = r.allTraces
           /\ expandedItems' = expandedItems \cup IdsOf(r.heap, r.allTraces)
    /\ lastExpandedTrace' = Null
    /\ expandedHistory' = <<>>
    /\ loading' = FALSE
    /\ text' = f
    /\ pending' = pending (-) SetToBag({f})
    /\ Rerender
    /\ UNCHANGED <<variant, file, searchTerm, highlightedItems>>
    /\ UNCHANGED loopVars

\* parseTraceFile after file.text() resolved: try block and finally
ReadResolve(f) ==
    /\ BagIn(f, pending)
    /\ LET r == ParseOf(variant, f)
       IN  /\ heap' = r.heap
           /\ traces' = r.allTraces
           /\ expandedItems' = IdsOf(r.heap, r.allTraces)
    /\ lastExpandedTrace' = Null
    /\ expandedHistory' = <<>>
    /\ loading' = FALSE
    /\ text' = f
    /\ pending' = pending (-) SetToBag({f})
    /\ Rerender
    /\ UNCHANGED <<variant, file, searchTerm, highlightedItems>>
    /\ UNCHANGED loopVars

\* seeded fault: the failure path leaves the loading flag as it is
ReadReject_NoFinally(f) ==
    /\ BagIn(f, pending)
    /\ pending' = pending (-) SetToBag({f})
    /\ UNCHANGED <<variant, file, heap, traces, expandedItems, searchTerm, loading,
                   highlightedItems, lastExpandedTrace, expandedHistory, text, traceRefs>>
    /\ UNCHANGED loopVars

\* parseTraceFile after file.text() rejected: catch block and finally
ReadReject(f) ==
    /\ BagIn(f, pending)
    /\ loading' = FALSE
    /\ pending' = pending (-) SetToBag({f})
    /\ UNCHANGED <<variant, file, heap, traces, expandedItems, searchTerm,
                   highlightedItems, lastExpandedTrace, expandedHistory, text, traceRefs>>
    /\ UNCHANGED loopVars

\* seeded fault: only the empty string counts as a blank query (if (!term))
HandleSearch_NoTrim(term) ==
    /\ traces # <<>>
    /\ searchTerm' = term
    /\ IF term = <<>>
       THEN /\ highlightedItems' = {}
            /\ UNCHANGED <<heap, expandedItems>>
       ELSE LET st == FindMatchesRoots([heap |-> heap, matches |-> {}], traces, 1, term)
            IN  /\ heap' = st.heap
                /\ highlightedItems' = st.matches
                /\ expandedItems' = expandedItems \cup st.matches
    /\ UNCHANGED <<variant, file, traces, loading, lastExpandedTrace, expandedHistory,
                   pending, text>>
    /\ Rerender
    /\ UNCHANGED loopVars

\* seeded fault: the matches replace the expanded set
HandleSearch_ReplacesExpanded(term) ==
    /\ traces # <<>>
    /\ searchTerm' = term
    /\ IF Trim(term) = <<>>
       THEN /\ highlightedItems' = {}
            /\ UNCHANGED <<heap, expandedItems>>
       ELSE LET st == FindMatchesRoots([heap |-> heap, matches |-> {}], traces, 1, term)
            IN  /\ heap' = st.heap
                /\ highlightedItems' = st.matches
                /\ expandedItems' = st.matches
    /\ UNCHANGED <<variant, file, traces, loading, lastExpandedTrace, expandedHistory,
                   pending, text>>
    /\ Rerender
    /\ UNCHANGED loopVars

\* the search box is rendered when traces.length > 0
HandleSearch(term) ==
    /\ traces # <<>>
    /\ searchTerm' = term
    /\ IF Trim(term) = <<>>
       THEN /\ highlightedItems' = {}
            /\ UNCHANGED <<heap, expandedItems>>
       ELSE LET st == FindMatchesRoots([heap |-> heap, matches |-> {}], traces, 1, term)
            IN  /\ heap' = st.heap
                /\ highlightedItems' = st.matches
                /\ expandedItems' = expandedItems \cup st.matches
    /\ UNCHANGED <<variant, file, traces, loading, lastExpandedTrace, expandedHistory,
                   pending, text>>
    /\ Rerender
    /\ UNCHANGED loopVars

Next ==
    \/ \E f \in Files : HandleFileChange(f)
    \/ \E f \in BagToSet(pending) : ReadResolve(f)
    \/ \E f \in BagToSet(pending) : ReadReject(f)
    \/ \E term \in Terms : HandleSearch(term)

Spec == Init /\ [][Next]_vars

\* One upload of an arbitrary document, read successfully
InitParse ==
    /\ variant \in Variants
    /\ \E t \in Texts :
          /\ file = File(t)
          /\ pending = SetToBag({t})
    /\ loading = TRUE
    /\ heap = <<>>
    /\ traces = <<>>
    /\ expandedItems = {}
    /\ searchTerm = <<>>
    /\ highlightedItems = {}
    /\ lastExpandedTrace = Null
    /\ expandedHistory = <<>>
    /\ text = <<>>
    /\ traceRefs = {}
    /\ LoopIdle

NextParse == \E f \in BagToSet(pending) : ReadResolve(f)

SpecParse == InitParse /\ [][NextParse]_vars

-----------------------------------------------------------------------------
(* parseTraceLines, one loop iteration per step *)

MaxDepth == 3
MaxLines == 4
MaxStart == 1

Indent(d) == [i \in 1..d |-> "|"]

\* a line of every depth, an empty line and a line of indentation only
BuilderLines == {Indent(d) \o <<"x">> : d \in 0..MaxDepth} \cup {<<>>, <<"|", SP>>}

InitLines ==
    /\ variant \in Variants
    /\ ViewerInit
    /\ lines \in SeqsUpTo(BuilderLines, MaxLines)
    /\ line = <<>>
    /\ rootTraces = <<>>
    /\ currentStack = <<>>
    /\ \E start \in 0..MaxStart : lineId = StartLineId(variant, start)

\* for (let line of lines) { ... }
Iterate ==
    /\ lines # <<>>
    /\ line' = Head(lines)
    /\ lines' = Tail(lines)
    /\ LET st == ParseLine([heap |-> heap, rootTraces |-> rootTraces,
                            currentStack |-> currentStack, lineId |-> lineId],
                           Head(lines))
       IN  /\ heap' = st.heap
           /\ rootTraces' = st.rootTraces
           /\ currentStack' = st.currentStack
           /\ lineId' = st.lineId
    /\ UNCHANGED <<variant, file, traces, loading, expandedItems, searchTerm,
                   highlightedItems, lastExpandedTrace, expandedHistory, pending, text, traceRefs>>

NextLines == Iterate

SpecLines == InitLines /\ [][NextLines]_vars

-----------------------------------------------------------------------------
(* The viewer with its expand / collapse controls and the sidebar.
   lastExpandedTrace and the entries of expandedHistory are references to
   nodes of the current forest. *)

IsRendered(ref) == ref \in RenderedRefs(heap, traces, expandedItems)

\* seeded fault: the history is not filtered before the trace is appended
WithoutId_NoFilter(history, id) == history

\* prev.filter(historyTrace => historyTrace.id !== trace.id)
WithoutId(history, id) ==
    LET Keep(r) == heap[r].id # id
    IN  SelectSeq(history, Keep)

\* onClick={() => hasChildren && toggleExpand(trace.id, trace)}
ToggleExpand(ref) ==
    /\ IsRendered(ref)
    /\ heap[ref].children # <<>>
    /\ LET traceId == heap[ref].id
       IN  IF traceId \in expandedItems
           THEN /\ expandedItems' = expandedItems \ {traceId}
                /\ IF HasSidebar /\ Len(expandedHistory) > 1
                   THEN LET newHistory == SubSeq(expandedHistory, 1,
                                                 Len(expandedHistory) - 1)
                        IN  /\ lastExpandedTrace' = newHistory[Len(newHistory)]
                            /\ expandedHistory' = newHistory
                   ELSE UNCHANGED <<lastExpandedTrace, expandedHistory>>
           ELSE /\ expandedItems' = expandedItems \cup {traceId}
                /\ IF HasSidebar
                   THEN /\ lastExpandedTrace' = ref
                        /\ expandedHistory' =
                               Append(WithoutId(expandedHistory, traceId), ref)
                   ELSE UNCHANGED <<lastExpandedTrace, expandedHistory>>
    /\ UNCHANGED <<variant, file, heap, traces, loading, searchTerm,
                   highlightedItems, pending, text>>
    /\ Rerender
    /\ UNCHANGED loopVars

\* seeded fault: expandAll takes the ids of every Trace object that was
\* created, also of those that were dropped by the tree builder
ExpandAll_WholeHeap ==
    /\ traces # <<>>
    /\ expandedItems' = {heap[n].id : n \in DOMAIN heap}
    /\ UNCHANGED <<variant, file, heap, traces, loading, searchTerm,
                   highlightedItems, lastExpandedTrace, expandedHistory,
                   pending, text>>
    /\ Rerender
    /\ UNCHANGED loopVars

\* the two buttons are rendered when traces.length > 0
ExpandAll ==
    /\ traces # <<>>
    /\ LET allIds == GetAllTraceIds(heap, traces)
       IN  expandedItems' = {allIds[i] : i \in DOMAIN allIds}
    /\ UNCHANGED <<variant, file, heap, traces, loading, searchTerm,
                   highlightedItems, lastExpandedTrace, expandedHistory,
                   pending, text>>
    /\ Rerender
    /\ UNCHANGED loopVars

\* seeded fault: collapseAll empties the history and keeps the sidebar trace
CollapseAll_KeepsLast ==
    /\ traces # <<>>
    /\ expandedItems' = IdsOf(heap, traces)
    /\ IF HasSidebar
       THEN /\ UNCHANGED lastExpandedTrace
            /\ expandedHistory' = <<>>
       ELSE UNCHANGED <<lastExpandedTrace, expandedHistory>>
    /\ UNCHANGED <<variant, file, heap, traces, loading, searchTerm,
                   highlightedItems, pending, text>>
    /\ Rerender
    /\ UNCHANGED loopVars

CollapseAll ==
    /\ traces # <<>>
    /\ expandedItems' = IdsOf(heap, traces)
    /\ IF HasSidebar
       THEN /\ lastExpandedTrace' = Null
            /\ expandedHistory' = <<>>
       ELSE UNCHANGED <<lastExpandedTrace, expandedHistory>>
    /\ UNCHANGED <<variant, file, heap, traces, loading, searchTerm,
                   highlightedItems, pending, text>>
    /\ Rerender
    /\ UNCHANGED loopVars

\* flattenTraces(traces).find(t => t.id === traceId)
FindById(flat, traceId) ==
    IF \E i \in DOMAIN flat : heap[flat[i]].id = traceId
    THEN flat[CHOOSE i \in DOMAIN flat :
                  /\ heap[flat[i]].id = traceId
                  /\ \A j \in 1..(i - 1) : heap[flat[j]].id # traceId]
    ELSE Null

\* the sidebar lists the children of lastExpandedTrace, each with
\* onClick={() => scrollToTrace(child.id)}
ScrollTargets ==
    IF HasSidebar /\ lastExpandedTrace # Null
    THEN {heap[lastExpandedTrace].children[k] :
             k \in DOMAIN heap[lastExpandedTrace].children}
    ELSE {}

\* expandedItems after scrollToTrace(child.id): under the guard
\* traceRefs.current[traceId], the ids found by following parent upwards
\* from the first trace with that id are added
ScrollExpanded(child) ==
    LET traceId == heap[child].id
        currentTrace == FindById(FlattenTraces(heap, traces), traceId)
    IN  IF traceId \in traceRefs /\ currentTrace # Null
        THEN expandedItems \cup ParentIds(heap, currentTrace)
        ELSE expandedItems

ScrollToTrace(child) ==
    /\ child \in ScrollTargets
    /\ expandedItems' = ScrollExpanded(child)
    /\ UNCHANGED <<variant, file, heap, traces, loading, searchTerm,
                   highlightedItems, lastExpandedTrace, expandedHistory,
                   pending, text>>
    /\ Rerender
    /\ UNCHANGED loopVars

\* the documents uploaded in this specification: both have a root with a
\* child that has a child of its own
SidebarFiles == {SampleFiles[1], SampleFiles[2]}

\* the queries typed in this specification: the empty one and one that
\* matches in both documents
SidebarTerms == {<<>>, <<"Y">>}

NextSidebar ==
    \/ \E f \in SidebarFiles : HandleFileChange(f)
    \/ \E f \in BagToSet(pending) : ReadResolve(f)
    \/ \E f \in BagToSet(pending) : ReadReject(f)
    \/ \E term \in SidebarTerms : HandleSearch(term)
    \/ \E ref \in DOMAIN heap : ToggleExpand(ref)
    \/ \E child \in DOMAIN heap : ScrollToTrace(child)
    \/ ExpandAll
    \/ CollapseAll

SpecSidebar == Init /\ [][NextSidebar]_vars

-----------------------------------------------------------------------------
(* C1 *)

\* C1: no two nodes of the forest produced by parseTraceFile have the same
\* id, in every variant of the parser and also across sections.
C1_UniqueIds ==
    \A m, n \in ForestRefs(heap, traces) : m # n => heap[m].id # heap[n].id

-----------------------------------------------------------------------------
(* C2 *)

\* C2: after handleSearch with a non-blank query, for every node whose
\* content matches the query, the id of every node on the path from it up
\* to its root is in highlightedItems.
C2_AncestorsHighlighted ==
    [][\A term \in Terms :
          (~IsBlank(term) /\ HandleSearch(term)) =>
              \A n \in ForestRefs(heap', traces') :
                  Matches(heap'[n], term) =>
                      \A a \in PathToRoot(heap', traces', n) :
                          heap'[a].id \in highlightedItems']_vars

\* a grandchild matches the term, its parent does not, and the parent is
\* highlighted all the same
C2_Witness ==
    /\ ~IsBlank(searchTerm)
    /\ \E n, p, g \in ForestRefs(heap, traces) :
          /\ n \in DOMAIN heap /\ p # n /\ g # p
          /\ \E k \in DOMAIN heap[p].children : heap[p].children[k] = n
          /\ \E k \in DOMAIN heap[g].children : heap[g].children[k] = p
          /\ Matches(heap[n], searchTerm)
          /\ ~Matches(heap[p], searchTerm)
          /\ {heap[n].id, heap[p].id, heap[g].id} \subseteq highlightedItems

-----------------------------------------------------------------------------
(* C3 *)

\* C3: handleSearch with an empty or whitespace-only query leaves
\* highlightedItems empty, whatever it contained before.
C3_BlankClears ==
    [][\A term \in Terms :
          (IsBlank(term) /\ HandleSearch(term)) => highlightedItems' = {}]_vars

\* a whitespace-only query after a search that had highlighted (and so
\* expanded) a node below the roots
C3_Witness ==
    /\ searchTerm = <<SP>>
    /\ highlightedItems = {}
    /\ \E n \in ForestRefs(heap, traces) :
          /\ heap[n].parent # Null
          /\ heap[n].id \in expandedItems

-----------------------------------------------------------------------------
(* C4 *)

\* C4: when reading the uploaded file throws, traces is empty after
\* parseTraceFile finishes, even if an earlier document had produced a forest.
\* Stated for the plain case: the failing read is the only one in flight and
\* belongs to the most recently selected file.
C4_FailureEmptiesForest ==
    [][\A f \in BagToSet(pending) :
          (ReadReject(f) /\ BagCardinality(pending) = 1 /\ file = File(f)) =>
              traces' = <<>>]_vars

-----------------------------------------------------------------------------
(* C5 *)

\* C5: when uploads overlap, the forest retained once the reads have completed
\* is that of the most recently started upload, in whatever order the reads
\* complete: a read that resolves while the forest of the most recently started
\* upload is retained leaves the forest of that upload retained.
C5_LastWriteWins ==
    [][\A f \in BagToSet(pending) :
          (ReadResolve(f) /\ file # NoFile /\ text = file[1]) =>
              text' = file'[1]]_vars

-----------------------------------------------------------------------------
(* The lines of a document, described apart from the parser *)

RECURSIVE Concat(_, _)
Concat(ss, n) == IF n = 0 THEN <<>> ELSE Concat(ss, n - 1) \o ss[n]

\* the lines of sections 1..n, in document order
LinesUpTo(sections, n) ==
    Concat([j \in 1..n |-> SectionLines(sections[j])], n)

\* l[1..p] is in the language of the indent pattern
InIndentLanguage(l, p) ==
    \A k \in 1..p :
        \/ l[k] \in Whitespace \cup Glyphs
        \/ l[k] = Dash /\ k > 1 /\ l[k - 1] \in Glyphs

MatchedPrefixLen(l) ==
    CHOOSE p \in 0..Len(l) :
        /\ InIndentLanguage(l, p)
        /\ \A q \in (p + 1)..Len(l) : ~InIndentLanguage(l, q)

GlyphCount(l) == Cardinality({k \in 1..MatchedPrefixLen(l) : l[k] \in Glyphs})

\* something other than whitespace follows the indent prefix
Produces(l) == \E k \in (MatchedPrefixLen(l) + 1)..Len(l) : l[k] \notin Whitespace

ProducingLines(sections, n) == SelectSeq(LinesUpTo(sections, n), Produces)

-----------------------------------------------------------------------------
(* C6 *)

\* C6: the depth of the node made from a line is the number of glyph
\* characters in the line's matched indent prefix, whatever whitespace and
\* dashes the prefix holds and however the glyphs are grouped.
C6_DepthIsGlyphCount ==
    pending = EmptyBag =>
        LET sections == TraceSections(text)
            prod == ProducingLines(sections, Len(sections))
        IN  /\ Len(heap) = Len(prod)
            /\ \A k \in DOMAIN prod : heap[k].depth = GlyphCount(prod[k])

\* two glyphs of different kinds, separated by whitespace, the second with a dash
C6_Witness ==
    /\ pending = EmptyBag
    /\ text = <<"|", SP, "+", Dash, "x">>
    /\ Len(heap) = 1
    /\ heap[1].depth = 2

-----------------------------------------------------------------------------
(* C7 *)

\* C7: a line that is blank, or whose content after the indent prefix is
\* empty after trimming, produces no node and consumes no id: the k-th line
\* of a section that is not skipped gets the id numbered (section start
\* offset + k - 1).
C7_SkippedLinesConsumeNoId ==
    pending = EmptyBag =>
        LET sections == TraceSections(text)
        IN  /\ Len(heap) = Len(ProducingLines(sections, Len(sections)))
            /\ \A s \in DOMAIN sections :
                  LET before == Len(ProducingLines(sections, s - 1))
                      here == Len(ProducingLines(sections, s)) - before
                      offset == IF variant = "App" THEN 0
                                ELSE Len(LinesUpTo(sections, s - 1))
                  IN  \A k \in 1..here : heap[before + k].id = TraceId(offset + k - 1)

\* an empty line between two lines that produce nodes
C7_Witness ==
    /\ pending = EmptyBag
    /\ text = <<"x", NL, NL, "x">>
    /\ Len(heap) = 2
    /\ heap[2].id = TraceId(1)

-----------------------------------------------------------------------------
(* C8 *)

WithoutParent(trace) == [trace EXCEPT !.parent = Null]

SameForest(h1, r1, h2, r2) ==
    /\ r1 = r2
    /\ Len(h1) = Len(h2)
    /\ \A n \in DOMAIN h1 : WithoutParent(h1[n]) = WithoutParent(h2[n])

-----------------------------------------------------------------------------
(* C9 *)

IsRootLine(l) == Produces(l) /\ GlyphCount(l) = 0

OneRootLine(section) ==
    LET ls == SectionLines(section)
    IN  /\ Len(SelectSeq(ls, Produces)) = 1
        /\ Len(SelectSeq(ls, IsRootLine)) = 1

\* C9: every node, at any nesting level, has the stackId of its top-level
\* root, which is the root's index in the top-level sequence; a document of
\* two sections with one root line each yields two top-level nodes with
\* stackId 0 and 1.
C9_StackIdIsRootIndex ==
    /\ \A i \in DOMAIN traces :
          \A n \in Descendants(heap, traces[i]) : heap[n].stackId = i - 1
    /\ LET sections == TraceSections(text)
       IN  (Len(sections) = 2 /\ OneRootLine(sections[1]) /\ OneRootLine(sections[2])) =>
               /\ Len(traces) = 2
               /\ heap[traces[1]].stackId = 0
               /\ heap[traces[2]].stackId = 1

\* a grandchild below the first root and a second root from a second section
C9_Witness ==
    /\ Len(traces) = 2
    /\ Len(TraceSections(text)) = 2
    /\ heap[traces[2]].stackId = 1
    /\ \E c \in DOMAIN heap[traces[1]].children :
          LET child == heap[traces[1]].children[c]
          IN  \E g \in DOMAIN heap[child].children :
                  heap[heap[child].children[g]].stackId = 0

-----------------------------------------------------------------------------
(* C10 *)

\* C10: a node deeper than the current stack is long, arriving while the
\* stack is not empty, becomes the last child of the deepest node of the
\* stack and is pushed; no other node is created or changed.
C10_SkipLevelAttach ==
    [][(/\ Len(heap') > Len(heap)
        /\ currentStack # <<>>
        /\ heap'[Len(heap')].depth > Len(currentStack)) =>
           LET new == Len(heap')
               deepest == currentStack[Len(currentStack)]
           IN  /\ new = Len(heap) + 1
               /\ heap'[deepest].children = Append(heap[deepest].children, new)
               /\ currentStack' = Append(currentStack, new)
               /\ rootTraces' = rootTraces
               /\ \A n \in DOMAIN heap : n # deepest => heap'[n] = heap[n]]_vars

\* a depth-3 line right after a depth-0 root is a direct child of that root
C10_Witness ==
    /\ Len(heap) = 2
    /\ heap[1].depth = 0
    /\ heap[2].depth = 3
    /\ heap[1].children = <<2>>
    /\ rootTraces = <<1>>
    /\ currentStack = <<1, 2>>

-----------------------------------------------------------------------------
(* C11 *)

\* C11: a node of depth d with 1 <= d <= length of the stack cuts the stack
\* back to its first d entries, becomes the last child of the entry at
\* position d-1 (counted from 0) and is pushed: afterwards the stack has
\* length d+1 with the node at position d.
C11_CloseBackAttach ==
    [][(/\ Len(heap') > Len(heap)
        /\ heap'[Len(heap')].depth >= 1
        /\ heap'[Len(heap')].depth <= Len(currentStack)) =>
           LET new == Len(heap')
               d == heap'[new].depth
               owner == currentStack[d]
           IN  /\ new = Len(heap) + 1
               /\ currentStack' = Append(SubSeq(currentStack, 1, d), new)
               /\ Len(currentStack') = d + 1
               /\ currentStack'[d + 1] = new
               /\ heap'[owner].children = Append(heap[owner].children, new)
               /\ rootTraces' = rootTraces
               /\ \A n \in DOMAIN heap : n # owner => heap'[n] = heap[n]]_vars

\* root, child, grandchild, then a depth-1 line: the stack of three is cut
\* back to the root and the new node is the root's second child
C11_Witness ==
    /\ Len(heap) = 4
    /\ heap[3].depth = 2
    /\ heap[4].depth = 1
    /\ heap[1].children = <<2, 4>>
    /\ heap[2].children = <<3>>
    /\ currentStack = <<1, 4>>

-----------------------------------------------------------------------------
(* C12 *)

\* C12: a node of non-zero depth that arrives while the stack is empty is
\* dropped: it is in no root list and no children list, the stack stays
\* empty, and the loop goes on to the next line.
C12_OrphanDropped ==
    [][(/\ Len(heap') > Len(heap)
        /\ heap'[Len(heap')].depth > 0
        /\ currentStack = <<>>) =>
           LET new == Len(heap')
           IN  /\ currentStack' = <<>>
               /\ rootTraces' = rootTraces
               /\ \A n \in DOMAIN heap : heap'[n] = heap[n]
               /\ heap'[new].children = <<>>
               /\ new \notin ForestRefs(heap', rootTraces')
               /\ \A n \in DOMAIN heap' :
                      \A i \in DOMAIN heap'[n].children :
                          heap'[n].children[i] # new
               /\ lines' = Tail(lines)
               /\ lineId' = lineId + 1]_vars

\* an indented line came first and was dropped, the depth-0 line after it
\* was still parsed and is the only root
C12_Witness ==
    /\ Len(heap) = 2
    /\ heap[1].depth > 0
    /\ heap[2].depth = 0
    /\ rootTraces = <<2>>
    /\ currentStack = <<2>>
    /\ heap[2].children = <<>>

-----------------------------------------------------------------------------
(* C13 *)

\* the nodes of depth 0, in the order they were created
DepthZeroRefs(h) ==
    LET IsRoot(n) == h[n].depth = 0
    IN  SelectSeq([n \in 1..Len(h) |-> n], IsRoot)

\* C13: a node is a top-level root exactly when its depth is 0: the root
\* list is the depth-0 nodes in document order, and every depth-0 line is
\* appended to it and resets the stack to just that node.
C13_RootsAreDepthZero ==
    /\ [](rootTraces = DepthZeroRefs(heap))
    /\ [][(/\ Len(heap') > Len(heap)
           /\ heap'[Len(heap')].depth = 0) =>
              /\ rootTraces' = Append(rootTraces, Len(heap'))
              /\ currentStack' = <<Len(heap')>>
              /\ \A n \in DOMAIN heap : heap'[n] = heap[n]]_vars

\* a second depth-0 line after a root with a child: two roots, the stack
\* holds the second one only
C13_Witness ==
    /\ Len(heap) = 3
    /\ heap[1].depth = 0
    /\ heap[2].depth = 1
    /\ heap[3].depth = 0
    /\ rootTraces = <<1, 3>>
    /\ currentStack = <<3>>
    /\ heap[1].children = <<2>>

-----------------------------------------------------------------------------
(* C15 *)

\* how many times ref occurs in the root list and in all children lists
Occurrences(h, roots, ref) ==
    Cardinality({i \in DOMAIN roots : roots[i] = ref})
    + Cardinality({p \in UNION {{<<n, i>> : i \in DOMAIN h[n].children} :
                                n \in DOMAIN h} :
                       h[p[1]].children[p[2]] = ref})

\* a node that was created below the root level before any root existed
IsDropped(h, ref) ==
    /\ h[ref].depth > 0
    /\ \A n \in 1..(ref - 1) : h[n].depth # 0

\* C15: the forest is a forest, not a DAG: every node that was created and
\* not dropped occurs exactly once, either in the root list or in exactly
\* one children list, never in both; a dropped node occurs nowhere.
C15_EachNodeOnce ==
    \A ref \in DOMAIN heap :
        /\ Occurrences(heap, rootTraces, ref) =
               IF IsDropped(heap, ref) THEN 0 ELSE 1
        /\ ~IsDropped(heap, ref) => ref \in ForestRefs(heap, rootTraces)

\* a dropped line, then a root, its child and its grandchild
C15_Witness ==
    /\ Len(heap) = 4
    /\ IsDropped(heap, 1)
    /\ rootTraces = <<2>>
    /\ heap[2].children = <<3>>
    /\ heap[3].children = <<4>>
    /\ lines = <<>>

-----------------------------------------------------------------------------
(* C14 *)

\* C14: handleSearch changes no node's content, no children sequence and not
\* the root list or the shape of the forest; the only field of a node it
\* writes is parent.
C14_SearchWritesOnlyParent ==
    [][\A term \in Terms :
          HandleSearch(term) =>
              /\ traces' = traces
              /\ Len(heap') = Len(heap)
              /\ \A n \in DOMAIN heap :
                     /\ heap'[n].content = heap[n].content
                     /\ heap'[n].children = heap[n].children
                     /\ WithoutParent(heap'[n]) = WithoutParent(heap[n])]_vars

\* a search has visited (written the parent of) a node that itself has
\* children and whose content has an upper-case letter
C14_Witness ==
    /\ ~IsBlank(searchTerm)
    /\ \E n \in ForestRefs(heap, traces) :
          /\ heap[n].parent # Null
          /\ heap[n].children # <<>>
          /\ \E k \in DOMAIN heap[n].content : heap[n].content[k] \in Upper

-----------------------------------------------------------------------------
(* C16 *)

\* s holds t at some offset, letters compared without regard to case
ContainsIgnoringCase(s, t) ==
    \E off \in 0..(Len(s) - Len(t)) :
        \A k \in 1..Len(t) : ToLowerChar(s[off + k]) = ToLowerChar(t[k])

\* C16: after handleSearch with a non-blank query the match set is exactly
\* the ids of the nodes whose content contains the query ignoring case,
\* together with the ids of all their ancestors, and no other id.
C16_ExactMatchSet ==
    [][\A term \in Terms :
          (~IsBlank(term) /\ HandleSearch(term)) =>
              highlightedItems' =
                  {heap'[a].id :
                      a \in UNION {PathToRoot(heap', traces', n) :
                                      n \in {m \in ForestRefs(heap', traces') :
                                                ContainsIgnoringCase(heap'[m].content, term)}}}]_vars

\* the query matched a node only because case is ignored, and some node of
\* the forest is neither a match nor an ancestor of one
C16_Witness ==
    /\ ~IsBlank(searchTerm)
    /\ \E n, m \in ForestRefs(heap, traces) :
          /\ ContainsIgnoringCase(heap[n].content, searchTerm)
          /\ ~Includes(heap[n].content, searchTerm)
          /\ heap[n].id \in highlightedItems
          /\ heap[m].id \notin highlightedItems

-----------------------------------------------------------------------------
(* C17 *)

\* C17: every parseTraceFile invocation whose read settles ends with loading
\* false, on the success path and on the failure path alike.
C17_SettledReadClearsLoading ==
    [][\A f \in BagToSet(pending) :
          (ReadResolve(f) \/ ReadReject(f)) => loading' = FALSE]_vars

\* after a document was parsed, a later upload of another document failed:
\* nothing is in flight and loading is false
C17_Witness ==
    /\ loading = FALSE
    /\ pending = EmptyBag
    /\ file # NoFile
    /\ text # <<>>
    /\ file # File(text)

-----------------------------------------------------------------------------
(* C18 *)

\* every node below the roots refers back to the node that holds it
ParentsPopulated(h, roots) ==
    \A p \in ForestRefs(h, roots) :
        \A k \in DOMAIN h[p].children : h[h[p].children[k]].parent = p

NoParents(h) == \A n \in DOMAIN h : h[n].parent = Null

\* C18 as stated: once handleSearch has run, with any query, every node
\* below the roots has its parent set to the node whose children hold it.
C18_AnySearchPopulates ==
    [][\A term \in Terms :
          HandleSearch(term) => ParentsPopulated(heap', traces')]_vars

\* C18: once handleSearch has run with a non-blank query since the forest
\* was built, every node below the roots has its parent set to the node
\* whose children hold it, and stays so until the next parse; a parse
\* produces a forest in which no node has a parent, and a search with a
\* blank query leaves every parent as it was.
C18_NonBlankSearchPopulates ==
    /\ [][\A term \in Terms :
             (~IsBlank(term) /\ HandleSearch(term)) =>
                 ParentsPopulated(heap', traces')]_vars
    /\ [][\A term \in Terms :
             (IsBlank(term) /\ HandleSearch(term)) => heap' = heap]_vars
    /\ [][\A f \in BagToSet(pending) : ReadResolve(f) => NoParents(heap')]_vars
    /\ [][(/\ ParentsPopulated(heap, traces)
           /\ ~\E f \in BagToSet(pending) : ReadResolve(f)) =>
              ParentsPopulated(heap', traces')]_vars
    /\ [](NoParents(heap) \/ ParentsPopulated(heap, traces))

\* after a non-blank search, a grandchild refers to its parent, which
\* refers to a root
C18_Witness ==
    /\ ~IsBlank(searchTerm)
    /\ \E n \in ForestRefs(heap, traces) :
          /\ heap[n].parent # Null
          /\ heap[heap[n].parent].parent # Null
          /\ heap[heap[heap[n].parent].parent].parent = Null
          /\ \E k \in DOMAIN heap[heap[n].parent].children :
                 heap[heap[n].parent].children[k] = n

-----------------------------------------------------------------------------
(* C19 *)

\* the number in an id "trace-<n>"
IdNumber(id) == id[2]

\* C19: the pre-order traversals (getAllTraceIds, flattenTraces) visit every
\* node of the forest exactly once, in strictly increasing order of id
\* number, and the children of every node are in increasing id order.
C19_PreorderIncreasingIds ==
    LET flat == FlattenTraces(heap, traces)
        ids == GetAllTraceIds(heap, traces)
    IN  /\ Len(flat) = Cardinality(ForestRefs(heap, traces))
        /\ {flat[i] : i \in DOMAIN flat} = ForestRefs(heap, traces)
        /\ ids = [i \in DOMAIN flat |-> heap[flat[i]].id]
        /\ \A i, j \in DOMAIN ids :
               i < j => IdNumber(ids[i]) < IdNumber(ids[j])
        /\ \A n \in ForestRefs(heap, traces) :
               \A k, l \in DOMAIN heap[n].children :
                   k < l => IdNumber(heap[heap[n].children[k]].id)
                                < IdNumber(heap[heap[n].children[l]].id)

-----------------------------------------------------------------------------
(* C20 *)

\* the content the line classifier takes from a line
ContentOfLine(l) == Trim(Substring(l, MatchedPrefixLen(l)))

\* C20: a successful parse replaces the forest wholesale: afterwards the
\* nodes are those of the lines of the new document and of nothing else,
\* expandedItems is exactly the set of the new top-level ids, and in the
\* sidebar variant lastExpandedTrace is null and expandedHistory is empty.
C20_ParseReplacesForest ==
    [][\A f \in BagToSet(pending) :
          ReadResolve(f) =>
              LET sections == TraceSections(f)
                  produced == ProducingLines(sections, Len(sections))
              IN  /\ Len(heap') = Len(produced)
                  /\ \A k \in DOMAIN heap' :
                         /\ heap'[k].content = ContentOfLine(produced[k])
                         /\ heap'[k].parent = Null
                  /\ ForestRefs(heap', traces') \subseteq DOMAIN heap'
                  /\ expandedItems' = {heap'[traces'[i]].id : i \in DOMAIN traces'}
                  /\ HasSidebar => /\ lastExpandedTrace' = Null
                                   /\ expandedHistory' = <<>>]_vars

\* the forest is that of the second sample document, parsed after a search
\* on another forest had highlighted (and expanded) an id that the new
\* forest does not have; only the new root is expanded and the sidebar is
\* empty
C20_Witness ==
    /\ HasSidebar
    /\ text = SampleFiles[2]
    /\ pending = EmptyBag
    /\ \E id \in highlightedItems :
          \A n \in DOMAIN heap : heap[n].id # id
    /\ expandedItems = IdsOf(heap, traces)
    /\ lastExpandedTrace = Null
    /\ expandedHistory = <<>>

-----------------------------------------------------------------------------
(* C21 *)

\* C21: after handleSearch with a non-blank query expandedItems is its
\* previous value united with the match set: nothing that was expanded is
\* collapsed, every matching node has all its proper ancestors expanded and
\* so every match is rendered.
C21_SearchExpandsMatches ==
    [][\A term \in Terms \cup SidebarTerms :
          (~IsBlank(term) /\ HandleSearch(term)) =>
              /\ expandedItems' = expandedItems \cup highlightedItems'
              /\ expandedItems \subseteq expandedItems'
              /\ \A n \in ForestRefs(heap', traces') :
                     ContainsIgnoringCase(heap'[n].content, term) =>
                         /\ \A a \in PathToRoot(heap', traces', n) \ {n} :
                                heap'[a].id \in expandedItems'
                         /\ n \in RenderedRefs(heap', traces', expandedItems')]_vars

\* a search has matched two roots; a node below a root, expanded by hand,
\* is not a match and is expanded all the same
C21_Witness ==
    /\ ~IsBlank(searchTerm)
    /\ Cardinality(highlightedItems) > 1
    /\ highlightedItems \subseteq expandedItems
    /\ \E n \in ForestRefs(heap, traces) :
          /\ heap[n].depth > 0
          /\ heap[n].id \in expandedItems
          /\ heap[n].id \notin highlightedItems
          /\ IsRendered(n)

-----------------------------------------------------------------------------
(* C22 *)

InHistory(history, ref) == \E i \in DOMAIN history : history[i] = ref

\* C22: in the sidebar variant, when toggleExpand collapses a trace while
\* expandedHistory has more than one entry, that trace is not in
\* expandedHistory afterwards, whichever position it had.
C22_CollapseRemovesFromHistory ==
    [][\A ref \in DOMAIN heap :
          (/\ HasSidebar
           /\ ToggleExpand(ref)
           /\ heap[ref].id \in expandedItems
           /\ Len(expandedHistory) > 1) =>
              ~InHistory(expandedHistory', ref)]_vars

-----------------------------------------------------------------------------
(* C23 *)

\* C23: in the sidebar variant expandedHistory never holds two entries with
\* the same trace id, after any sequence of uploads, toggleExpand, expandAll,
\* collapseAll and searches.
C23_HistoryHasNoDuplicateId ==
    HasSidebar =>
        \A i, j \in DOMAIN expandedHistory :
            i # j => heap[expandedHistory[i]].id # heap[expandedHistory[j]].id

\* two traces in the history, of which the older one is expanded again at
\* this moment (it was collapsed and re-expanded, or never collapsed)
C23_Witness ==
    /\ HasSidebar
    /\ Len(expandedHistory) = 2
    /\ heap[expandedHistory[1]].id \notin expandedItems
    /\ heap[expandedHistory[2]].id \in expandedItems
    /\ heap[expandedHistory[2]].depth = 0

-----------------------------------------------------------------------------
(* C25 *)

\* C25: in the sidebar variant, in every reachable state either
\* lastExpandedTrace is null and expandedHistory is empty, or
\* lastExpandedTrace is the last entry of expandedHistory.
C25_LastIsEndOfHistory ==
    HasSidebar =>
        \/ lastExpandedTrace = Null /\ expandedHistory = <<>>
        \/ /\ expandedHistory # <<>>
           /\ lastExpandedTrace = expandedHistory[Len(expandedHistory)]

\* after a collapse that popped the history: one entry is left, it is the
\* sidebar trace, and it is collapsed itself
C25_Witness ==
    /\ HasSidebar
    /\ Len(expandedHistory) = 1
    /\ lastExpandedTrace = expandedHistory[1]
    /\ heap[lastExpandedTrace].id \notin expandedItems
    /\ heap[lastExpandedTrace].depth > 0
    /\ \E r \in DOMAIN traces : heap[traces[r]].id \notin expandedItems

-----------------------------------------------------------------------------
(* C26 *)

\* C26: every id in expandedItems is the id of a node of the forest that is
\* held, after any sequence of uploads (successful or failing), toggleExpand,
\* expandAll, collapseAll and searches.
C26_ExpandedAreForestIds ==
    expandedItems \subseteq {heap[n].id : n \in ForestRefs(heap, traces)}

\* the forest of a document whose first line was dropped; a later upload
\* failed; a node below the root is expanded
C26_Witness ==
    /\ heap # <<>>
    /\ 1 \notin ForestRefs(heap, traces)
    /\ pending = EmptyBag
    /\ loading = FALSE
    /\ file # File(text)
    /\ \E n \in ForestRefs(heap, traces) :
          heap[n].depth > 0 /\ heap[n].id \in expandedItems

-----------------------------------------------------------------------------
(* C24 *)

\* C24: in the sidebar variant, after scrollToTrace(id) for a trace that
\* renderTrace has produced an element for (traceRefs.current[id] is set),
\* every proper ancestor of the trace is in expandedItems, so that the
\* trace is rendered; also when no search has run since the forest was
\* built.  Stated on the state in which the sidebar entry is clicked:
\* the expanded set that scrollToTrace leaves holds every proper ancestor.
C24_ScrollRevealsTarget ==
    \A child \in ScrollTargets :
        heap[child].id \in traceRefs =>
            /\ \A a \in PathToRoot(heap, traces, child) \ {child} :
                   heap[a].id \in ScrollExpanded(child)
            /\ child \in RenderedRefs(heap, traces, ScrollExpanded(child))

-----------------------------------------------------------------------------
(* C27 *)

\* the ids of the nodes whose content holds the term, and of their ancestors
MatchSet(h, roots, term) ==
    {h[a].id :
        a \in UNION {PathToRoot(h, roots, n) :
                        n \in {m \in ForestRefs(h, roots) :
                                  ContainsIgnoringCase(h[m].content, term)}}}

\* C27: highlightedItems is consistent with the current search term and the
\* current forest after any sequence of uploads and searches: empty when the
\* term is blank, otherwise exactly the ids of the nodes of the current
\* forest that match the term and of their ancestors; an upload leaves no
\* id highlighted that was computed on the previous forest.
C27_HighlightFollowsForest ==
    highlightedItems = IF IsBlank(searchTerm) THEN {}
                       ELSE MatchSet(heap, traces, searchTerm)

-----------------------------------------------------------------------------
(* C28 *)

\* C28: whenever a parseTraceFile invocation has started and not finished,
\* loading is true, also when two uploads overlap and one of them finishes
\* before the other.
C28_LoadingWhileInFlight ==
    pending # EmptyBag => loading = TRUE

-----------------------------------------------------------------------------
(* C29 *)

LastOf(seq) == seq[Len(seq)]

\* the node that was attached to the tree last
LastAttached(h, roots) ==
    CHOOSE n \in ForestRefs(h, roots) : \A m \in ForestRefs(h, roots) : m <= n

\* C29: at every step of parseTraceLines the current stack is empty or an
\* ancestor chain of the tree built so far: its first entry is the root
\* added last, every later entry is the last child of the entry before it,
\* and its last entry is the node attached last.  It is empty only while
\* there is no root.
C29_StackIsOpenChain ==
    IF currentStack = <<>> THEN rootTraces = <<>>
    ELSE /\ rootTraces # <<>>
         /\ currentStack[1] = LastOf(rootTraces)
         /\ \A k \in 1..(Len(currentStack) - 1) :
                /\ heap[currentStack[k]].children # <<>>
                /\ currentStack[k + 1] = LastOf(heap[currentStack[k]].children)
         /\ LastOf(currentStack) = LastAttached(heap, rootTraces)
         /\ heap[LastOf(currentStack)].children = <<>>

\* a chain of three after a skipped level and a line that closed back: the
\* second root, its child of depth 3 and a node of depth 2 below that
C29_Witness ==
    /\ Len(rootTraces) = 2
    /\ Len(currentStack) = 3
    /\ currentStack[1] = rootTraces[2]
    /\ heap[currentStack[2]].depth = 3
    /\ heap[currentStack[3]].depth = 2

-----------------------------------------------------------------------------
(* C30 *)

\* C30: in every forest the tree builder produces, for any sequence of line
\* depths (skipped levels included), the depth of each node below the roots
\* is strictly greater than the depth of its parent.
C30_ChildDeeperThanParent ==
    \A p \in ForestRefs(heap, rootTraces) :
        \A k \in DOMAIN heap[p].children :
            heap[heap[p].children[k]].depth > heap[p].depth

====
